---- MODULE Spec2Model ----
(***************************************************************************)
(* The simulation core of pong-rs (src/src/main.rs): one ball, one paddle, *)
(* three walls and a score, advanced once per frame by the four systems    *)
(* move_ball, bounce_ball, out_of_bounds and keyboard_input.               *)
(*                                                                         *)
(* Numbers.  Positions, directions and the speed multiplier are f32 in the *)
(* source.  The model uses exact integer arithmetic: the initial           *)
(* directions and the frame deltas (in ticks of 1/50 s) are whole numbers, *)
(* so every product dir * delta_seconds * speed_multiplier is one too.     *)
(* Rounding error of f32 is not modelled.                                  *)
(*                                                                         *)
(* Scheduling.  main() registers the four systems with add_system and      *)
(* declares no ordering between them (no .before/.after, no labels).       *)
(* Bevy runs every system of the stage exactly once per frame, never runs  *)
(* two systems with conflicting data access at the same time, and leaves   *)
(* the order of systems without declared ordering unspecified: it may      *)
(* differ between runs and between frames.  An action below is one whole   *)
(* system run.  Next lets any system that has not yet run in the current   *)
(* frame run next.  NextOrdered is the schedule that runs the systems in   *)
(* the order keyboard_input, move_ball, bounce_ball, out_of_bounds in      *)
(* every frame: one of the schedules the program can produce.              *)
(*                                                                         *)
(* Specifications.  Spec is the program under every schedule, started with *)
(* an axis-parallel (or zero) ball direction.  SpecOrdered is the program  *)
(* under the ordered schedule, started with any direction of InitDirs or   *)
(* ObliqueDirs.  SpecOrderedFair is the ordered schedule from the          *)
(* directions of InitDirs with frames that never stop coming.  SpecJitter  *)
(* is the ordered schedule with the frame deltas of JitterDeltaSet.        *)
(***************************************************************************)
EXTENDS Integers, Sequences, FiniteSets, TLC

VARIABLES
    ball,      \* Transform.translation of the Ball entity
    speed,     \* Speed component of the ball: [dir, speed_multiplier]
    player,    \* Transform.translation of the Player entity
    score,     \* GameState.score: <<score.0, score.1>>
    ran        \* the systems that have run in the current frame

vars == <<ball, speed, player, score, ran>>

----------------------------------------------------------------------------
(* Bounds of the model (not program constants).                            *)

\* GameState.score.0 is a u32; the model stops scoring at MaxScore.
MaxScore == 2

\* The ball is followed while |x| and |y| of its centre are at most MaxCoord.
MaxCoord == 330

\* Time::delta_seconds() values the host clock supplies, in ticks of
\* 1/50 s (one tick is the time in which a ball of direction d moves d units
\* at the default multiplier): 40 ms and 80 ms.
DeltaSet == {2, 4}

\* Frame deltas of a host whose frame time is uneven: 20 ms and 80 ms.
JitterDeltaSet == {1, 4}

\* Values <<x, y>> of the two draws rng.gen_range(-10.0..10.0) and
\* rng.gen_range(0.0..10.0) in setup: axis-parallel or zero directions,
InitDirs == {<<0, 0>>, <<0, 5>>, <<5, 0>>, <<-5, 0>>}

\* and a direction that takes the ball into the corners of the field.
ObliqueDirs == {<<5, 6>>}

----------------------------------------------------------------------------
(* Vectors.                                                                *)

Vec3(x, y, z) == [x |-> x, y |-> y, z |-> z]
Vec2(x, y) == [x |-> x, y |-> y]

VAdd(a, b) == Vec3(a.x + b.x, a.y + b.y, a.z + b.z)
VSub(a, b) == Vec3(a.x - b.x, a.y - b.y, a.z - b.z)
VScale(k, a) == Vec3(k * a.x, k * a.y, k * a.z)
Dot(a, b) == a.x * b.x + a.y * b.y + a.z * b.z

X == Vec3(1, 0, 0)
Y == Vec3(0, 1, 0)
NEG_X == Vec3(-1, 0, 0)
NEG_Y == Vec3(0, -1, 0)

----------------------------------------------------------------------------
(* Constants of the program.                                               *)

DEFAULT_SPEED == 50
BALL_SIZE == Vec2(10, 10)
PLAYER_SIZE == Vec2(100, 10)
BALL_INITIAL == Vec3(0, -250, 0)

\* The three walls in spawn order, which is the order the wall query yields.
TopWall == Vec3(0, 300, 0)
RightWall == Vec3(300, 0, 0)
LeftWall == Vec3(-300, 0, 0)
Walls == <<TopWall, RightWall, LeftWall>>

PlayerInitial == Vec3(0, -290, 0)

\* The out-of-bounds zone tested by out_of_bounds.
ZonePos == Vec3(0, -300, 0)
ZoneSize == Vec2(600, 10)

Systems == {"move_ball", "bounce_ball", "out_of_bounds", "keyboard_input"}

----------------------------------------------------------------------------
(* bevy::sprite::collide_aabb::collide, reduced to is_some(): two boxes    *)
(* given by centre and full size collide iff they overlap on both axes,    *)
(* with strict comparisons (boxes that only touch do not collide).  All    *)
(* sizes of the program are even, so the halves are whole numbers.         *)

collide(a_pos, a_size, b_pos, b_size) ==
    LET a_min == Vec2(a_pos.x - a_size.x \div 2, a_pos.y - a_size.y \div 2)
        a_max == Vec2(a_pos.x + a_size.x \div 2, a_pos.y + a_size.y \div 2)
        b_min == Vec2(b_pos.x - b_size.x \div 2, b_pos.y - b_size.y \div 2)
        b_max == Vec2(b_pos.x + b_size.x \div 2, b_pos.y + b_size.y \div 2)
    IN  /\ a_min.x < b_max.x
        /\ a_max.x > b_min.x
        /\ a_min.y < b_max.y
        /\ a_max.y > b_min.y

----------------------------------------------------------------------------
(* move_ball                                                               *)

\* speed.dir * timer.delta_seconds() * speed.speed_multiplier, dt in ticks.
Displacement(dir, dt, multiplier) ==
    Vec3((dir.x * dt * multiplier) \div DEFAULT_SPEED,
         (dir.y * dt * multiplier) \div DEFAULT_SPEED,
         (dir.z * dt * multiplier) \div DEFAULT_SPEED)

\* Variant: the multiplier is not reset after the move.
move_ball_no_reset(b, s, dt) ==
    [ball  |-> VAdd(b, Displacement(s.dir, dt, s.speed_multiplier)),
     speed |-> s]

\* Variant: the multiplier is reset before it is used.
move_ball_reset_first(b, s, dt) ==
    [ball  |-> VAdd(b, Displacement(s.dir, dt, DEFAULT_SPEED)),
     speed |-> [s EXCEPT !.speed_multiplier = DEFAULT_SPEED]]

move_ball(b, s, dt) ==
    [ball  |-> VAdd(b, Displacement(s.dir, dt, s.speed_multiplier)),
     speed |-> [s EXCEPT !.speed_multiplier = DEFAULT_SPEED]]

----------------------------------------------------------------------------
(* bounce_ball                                                             *)

get_wall_size(wall_trans) ==
    IF wall_trans.x = 0 THEN Vec2(600, 10) ELSE Vec2(10, 600)

wall_normal(wall_trans) ==
    IF wall_trans.x = 0 /\ wall_trans.y = 300 THEN NEG_Y
    ELSE IF wall_trans.x = 0 /\ wall_trans.y = -300 THEN Y
    ELSE IF wall_trans.x = 300 /\ wall_trans.y = 0 THEN NEG_X
    ELSE X

\* Variant: the factor 2 of the reflection is missing.
reflect_half(dir, normal) == VSub(dir, VScale(Dot(dir, normal), normal))

\* speed.dir - (2. * speed.dir.dot(normal)) * normal
reflect(dir, normal) == VSub(dir, VScale(2 * Dot(dir, normal), normal))

\* One collision response: reflect the direction, double the multiplier.
respond(s, normal) ==
    [dir |-> reflect(s.dir, normal), speed_multiplier |-> s.speed_multiplier * 2]

wall_collided(wall_trans, b) ==
    collide(wall_trans, get_wall_size(wall_trans), b, BALL_SIZE)

\* Variant: the loop over the walls does not break after the first hit.
wall_phase_no_break(walls, b, s) ==
    LET after[i \in 0..Len(walls)] ==
            IF i = 0 THEN s
            ELSE IF wall_collided(walls[i], b)
                 THEN respond(after[i - 1], wall_normal(walls[i]))
                 ELSE after[i - 1]
    IN  after[Len(walls)]

\* The loop over the walls, in the order `walls`: the first wall the ball
\* collides with is resolved and the loop breaks.
wall_phase(walls, b, s) ==
    LET hits == {i \in 1..Len(walls) : wall_collided(walls[i], b)}
    IN  IF hits = {} THEN s
        ELSE LET first == CHOOSE i \in hits : \A j \in hits : i <= j
             IN  respond(s, wall_normal(walls[first]))

player_collided(p, b) == collide(p, PLAYER_SIZE, b, BALL_SIZE)

\* The loop over the (single) player.
player_phase(p, b, s) ==
    IF player_collided(p, b) THEN respond(s, Y) ELSE s

\* Variant: the paddle response is computed from the velocity and multiplier
\* the ball had before the wall phase.
bounce_ball_stale(b, p, s) ==
    IF player_collided(p, b) THEN respond(s, Y) ELSE wall_phase(Walls, b, s)

bounce_ball(b, p, s) == player_phase(p, b, wall_phase(Walls, b, s))

----------------------------------------------------------------------------
(* out_of_bounds                                                           *)

zone_collided(b) == collide(b, BALL_SIZE, ZonePos, ZoneSize)

\* Variant: the point is credited to the second score component.
out_of_bounds_second(b, sc) ==
    IF zone_collided(b)
    THEN [ball |-> BALL_INITIAL, score |-> <<sc[1], sc[2] + 1>>]
    ELSE [ball |-> b, score |-> sc]

\* Variant: the point is credited whether or not the ball is in the zone.
out_of_bounds_unconditional(b, sc) ==
    [ball  |-> IF zone_collided(b) THEN BALL_INITIAL ELSE b,
     score |-> <<sc[1] + 1, sc[2]>>]

out_of_bounds(b, sc) ==
    IF zone_collided(b)
    THEN [ball |-> BALL_INITIAL, score |-> <<sc[1] + 1, sc[2]>>]
    ELSE [ball |-> b, score |-> sc]

----------------------------------------------------------------------------
(* keyboard_input                                                          *)

\* Variant: the left-hand guard is strict.
left_step_strict(p) ==
    IF VSub(VSub(p, Vec3(25, 0, 0)), Vec3(50, 0, 0)).x > -325
    THEN VSub(p, Vec3(10, 0, 0))
    ELSE p

\* Variant: the left step also moves the paddle down.
left_step_diagonal(p) ==
    IF VSub(VSub(p, Vec3(25, 0, 0)), Vec3(50, 0, 0)).x >= -325
    THEN VSub(p, Vec3(10, 10, 0))
    ELSE p

left_step(p) ==
    IF VSub(VSub(p, Vec3(25, 0, 0)), Vec3(50, 0, 0)).x >= -325
    THEN VSub(p, Vec3(10, 0, 0))
    ELSE p

\* Variant: the right-hand guard compares against the wrong bound.
right_step_wide(p) ==
    IF VAdd(VAdd(p, Vec3(25, 0, 0)), Vec3(50, 0, 0)).x <= 345
    THEN VAdd(p, Vec3(10, 0, 0))
    ELSE p

\* Variant: the right step is 20 units long.
right_step_double(p) ==
    IF VAdd(VAdd(p, Vec3(25, 0, 0)), Vec3(50, 0, 0)).x <= 325
    THEN VAdd(p, Vec3(20, 0, 0))
    ELSE p

right_step(p) ==
    IF VAdd(VAdd(p, Vec3(25, 0, 0)), Vec3(50, 0, 0)).x <= 325
    THEN VAdd(p, Vec3(10, 0, 0))
    ELSE p

keyboard_input(p, left, right) ==
    LET p1 == IF left THEN left_step(p) ELSE p
    IN  IF right THEN right_step(p1) ELSE p1

----------------------------------------------------------------------------
(* The state machine.                                                      *)

\* setup, followed by the first frame's start.
Setup(dirs) ==
    /\ ball = BALL_INITIAL
    /\ \E d \in dirs :
          speed = [dir |-> Vec3(d[1], d[2], 0), speed_multiplier |-> DEFAULT_SPEED]
    /\ player = PlayerInitial
    /\ score = <<0, 0>>
    /\ ran = {}

Init == Setup(InitDirs)

InitAny == Setup(InitDirs \cup ObliqueDirs)

InView(b) == b.x >= -MaxCoord /\ b.x <= MaxCoord /\ b.y >= -MaxCoord /\ b.y <= MaxCoord

MoveBallWith(dt) ==
    /\ "move_ball" \notin ran
    /\ LET r == move_ball(ball, speed, dt)
       IN  /\ InView(r.ball)
           /\ ball' = r.ball
           /\ speed' = r.speed
    /\ ran' = ran \cup {"move_ball"}
    /\ UNCHANGED <<player, score>>

MoveBall == \E dt \in DeltaSet : MoveBallWith(dt)

BounceBall ==
    /\ "bounce_ball" \notin ran
    /\ speed' = bounce_ball(ball, player, speed)
    /\ ran' = ran \cup {"bounce_ball"}
    /\ UNCHANGED <<ball, player, score>>

OutOfBounds ==
    /\ "out_of_bounds" \notin ran
    /\ LET r == out_of_bounds(ball, score)
       IN  /\ r.score[1] <= MaxScore
           /\ r.score[2] <= MaxScore
           /\ ball' = r.ball
           /\ score' = r.score
    /\ ran' = ran \cup {"out_of_bounds"}
    /\ UNCHANGED <<speed, player>>

KeyboardInputWith(left, right) ==
    /\ "keyboard_input" \notin ran
    /\ player' = keyboard_input(player, left, right)
    /\ ran' = ran \cup {"keyboard_input"}
    /\ UNCHANGED <<ball, speed, score>>

KeyboardInput == \E left \in BOOLEAN, right \in BOOLEAN : KeyboardInputWith(left, right)

\* The schedule has run every system of the frame: the next frame begins.
NextFrame ==
    /\ ran = Systems
    /\ ran' = {}
    /\ UNCHANGED <<ball, speed, player, score>>

Next == MoveBall \/ BounceBall \/ OutOfBounds \/ KeyboardInput \/ NextFrame

Spec == Init /\ [][Next]_vars

\* The schedule that runs the systems in the order keyboard_input, move_ball,
\* bounce_ball, out_of_bounds in every frame.
NextOrdered ==
    \/ ran = {} /\ KeyboardInput
    \/ ran = {"keyboard_input"} /\ MoveBall
    \/ ran = {"keyboard_input", "move_ball"} /\ BounceBall
    \/ ran = {"keyboard_input", "move_ball", "bounce_ball"} /\ OutOfBounds
    \/ NextFrame

SpecOrdered == InitAny /\ [][NextOrdered]_vars

\* The ordered schedule with frames that keep coming: the runner of the App
\* runs the schedule again and again for as long as the program lives.
SpecOrderedFair == Init /\ [][NextOrdered]_vars /\ WF_vars(NextOrdered)

\* The ordered schedule on a host with uneven frame times.
MoveBallJitter == \E dt \in JitterDeltaSet : MoveBallWith(dt)

NextJitter ==
    \/ ran = {} /\ KeyboardInput
    \/ ran = {"keyboard_input"} /\ MoveBallJitter
    \/ ran = {"keyboard_input", "move_ball"} /\ BounceBall
    \/ ran = {"keyboard_input", "move_ball", "bounce_ball"} /\ OutOfBounds
    \/ NextFrame

SpecJitter == Init /\ [][NextJitter]_vars

----------------------------------------------------------------------------
(* Properties.                                                             *)

\* The step in which system s runs.
Runs(s) == s \notin ran /\ s \in ran'

\* The ball's 10x10 box overlaps the 600x10 zone centred at (0,-300).
OverlapsZone(b) == b.x > -305 /\ b.x < 305 /\ b.y > -310 /\ b.y < -290

\* The ball's box overlaps the top, right, left wall.
OverlapsTop(b) == b.x > -305 /\ b.x < 305 /\ b.y > 290 /\ b.y < 310
OverlapsRight(b) == b.x > 290 /\ b.x < 310 /\ b.y > -305 /\ b.y < 305
OverlapsLeft(b) == b.x > -310 /\ b.x < -290 /\ b.y > -305 /\ b.y < 305

\* The ball's box overlaps the 100x10 paddle centred at p.
OverlapsPaddle(b, p) ==
    b.x > p.x - 55 /\ b.x < p.x + 55 /\ b.y > p.y - 10 /\ b.y < p.y + 10

\* C1: paddle containment.  In every state, hence at every frame boundary,
\* the paddle's centre x is within [-275, 275].
C1_PaddleContained == player.x >= -275 /\ player.x <= 275

\* C1 witness: the paddle has been driven to its rightmost position, where
\* the move-right guard refuses a further step.
C1_Witness ==
    /\ "keyboard_input" \in ran
    /\ player.x = 260
    /\ keyboard_input(player, FALSE, TRUE) = player

\* C2: scoring.  When out_of_bounds runs with the ball overlapping the
\* out-of-bounds zone, the ball is placed at exactly (0,-250,0), score.0 grows
\* by exactly 1, and score.1, the direction and the multiplier are unchanged.
C2_Scoring ==
    [][(Runs("out_of_bounds") /\ OverlapsZone(ball))
          => /\ ball' = Vec3(0, -250, 0)
             /\ score'[1] = score[1] + 1
             /\ score'[2] = score[2]
             /\ speed' = speed]_vars

\* C2 witness: out_of_bounds has just reset a ball that was moving down; the
\* ball is at the spawn point, still moving down, and a point is scored.
C2_Witness ==
    /\ "out_of_bounds" \in ran
    /\ "move_ball" \in ran
    /\ ball = BALL_INITIAL
    /\ speed.dir.y < 0
    /\ score[1] = 1

\* C3: frame ordering.  In every frame the systems run in the fixed order
\* keyboard_input, move_ball, bounce_ball, out_of_bounds: at every moment the
\* systems that have run in the current frame are a prefix of that order.
C3_FixedOrder ==
    ran \in { {},
              {"keyboard_input"},
              {"keyboard_input", "move_ball"},
              {"keyboard_input", "move_ball", "bounce_ball"},
              Systems }

\* C4 (as claimed): the multiplier equals DEFAULT_SPEED (50) at the start of
\* every frame.
C4_FrameStartDefault == (ran = {}) => speed.speed_multiplier = 50

\* C4 (amended): the multiplier equals DEFAULT_SPEED (50) once move_ball has
\* run in a frame, until bounce_ball runs in that frame.
C4_DefaultAfterMove ==
    ("move_ball" \in ran /\ "bounce_ball" \notin ran) => speed.speed_multiplier = 50

\* C4 witness: move_ball has taken a ball that the previous frame's
\* collision sent down from the top wall one boosted step further (40 units
\* in 40 ms); no collision response has been applied yet in this frame, and
\* the multiplier is back at 50.
C4_Witness ==
    /\ "move_ball" \in ran
    /\ "bounce_ball" \notin ran
    /\ ball = Vec3(0, 260, 0)
    /\ speed.dir = Vec3(0, -5, 0)
    /\ speed.speed_multiplier = 50

\* The multiplier C5 expects after bounce_ball has run on ball b, paddle p.
C5_Expected(b, p) ==
    LET wall == OverlapsTop(b) \/ OverlapsRight(b) \/ OverlapsLeft(b)
        paddle == OverlapsPaddle(b, p)
    IN  IF wall /\ paddle THEN 200 ELSE IF wall \/ paddle THEN 100 ELSE 50

\* C5: speed escalation.  After bounce_ball has run the multiplier is exactly
\* 50 if no collision was resolved, 100 if one was, 200 if a wall and the
\* paddle were; the step of move_ball that follows sets it back to 50; so it
\* is one of 50, 100, 200 in every state.
C5_Escalation ==
    [][/\ Runs("bounce_ball") => speed'.speed_multiplier = C5_Expected(ball, player)
       /\ Runs("move_ball") => speed'.speed_multiplier = 50
       /\ speed'.speed_multiplier \in {50, 100, 200}]_vars

\* C6: the mover step.  When move_ball runs, for the frame's delta dt the
\* position becomes position + dir * dt * multiplier (dt in ticks of 1/50 s,
\* the multiplier as it was before the step), the multiplier becomes 50, and
\* dir, the paddle and the score are unchanged.
C6_MoverStep ==
    [][Runs("move_ball")
          => /\ \E dt \in DeltaSet :
                  /\ ball'.x * 50 = ball.x * 50 + speed.dir.x * dt * speed.speed_multiplier
                  /\ ball'.y * 50 = ball.y * 50 + speed.dir.y * dt * speed.speed_multiplier
                  /\ ball'.z * 50 = ball.z * 50 + speed.dir.z * dt * speed.speed_multiplier
             /\ speed'.speed_multiplier = 50
             /\ speed'.dir = speed.dir
             /\ player' = player
             /\ score' = score]_vars

\* C6 witness: the ball, sent left from the right wall at x = 300 with the
\* multiplier doubled, has been moved by move_ball with the boosted
\* multiplier (20 units in 40 ms) and the multiplier is back at 50.
C6_Witness ==
    /\ "move_ball" \in ran
    /\ "bounce_ball" \notin ran
    /\ ball = Vec3(280, -250, 0)
    /\ speed.dir = Vec3(-5, 0, 0)
    /\ speed.speed_multiplier = 50

C8_OneWallPerFrame ==
    [][(/\ Runs("bounce_ball")
        /\ OverlapsTop(ball)
        /\ (OverlapsRight(ball) \/ OverlapsLeft(ball)))
          => LET d == speed.dir
             IN  /\ \/ speed'.dir = Vec3(d.x, -d.y, d.z)
                    \/ speed'.dir = Vec3(-d.x, d.y, d.z)
                 /\ speed'.speed_multiplier = 2 * speed.speed_multiplier]_vars

\* C8 witness: bounce_ball has run on a ball that moved up and to the right
\* into the top right corner, overlapping both walls: it now moves down and
\* to the right and the multiplier is 100.
C8_Witness ==
    /\ "bounce_ball" \in ran
    /\ OverlapsTop(ball)
    /\ OverlapsRight(ball)
    /\ speed.dir = Vec3(5, -6, 0)
    /\ speed.speed_multiplier = 100

\* C9: wall and paddle in the same frame.  When bounce_ball runs with the
\* ball overlapping a side wall and the paddle, the direction is reflected
\* about the wall normal and the result about the paddle normal (0,1): dir.x
\* and dir.y are both negated, and the multiplier is 4 times what it was.
C9_WallThenPaddle ==
    [][(/\ Runs("bounce_ball")
        /\ (OverlapsRight(ball) \/ OverlapsLeft(ball))
        /\ ~OverlapsTop(ball)
        /\ OverlapsPaddle(ball, player))
          => LET d == speed.dir
                 afterWall == Vec3(-d.x, d.y, d.z)
             IN  /\ speed'.dir = Vec3(afterWall.x, -afterWall.y, afterWall.z)
                 /\ speed'.speed_multiplier = 4 * speed.speed_multiplier]_vars

\* C9 witness: bounce_ball has run on a ball that came down to the right
\* into the right wall while overlapping the paddle: it now moves up and to
\* the left and the multiplier is 200.
C9_Witness ==
    /\ "bounce_ball" \in ran
    /\ OverlapsRight(ball)
    /\ OverlapsPaddle(ball, player)
    /\ speed.dir = Vec3(-5, 6, 0)
    /\ speed.speed_multiplier = 200

\* With both keys held: whether the left guard lets the paddle at x step,
\* where the paddle is after the left branch, and whether the right guard
\* lets it step from there.
C10_LeftApplies(x) == x - 75 >= -325
C10_AfterLeft(x) == IF C10_LeftApplies(x) THEN x - 10 ELSE x
C10_RightApplies(x) == C10_AfterLeft(x) + 75 <= 325

\* C10 (as claimed): in a frame with both keys held, keyboard_input applies
\* either both 10-unit steps or neither of them.
C10_BothOrNeither ==
    [][KeyboardInputWith(TRUE, TRUE)
          => \/ C10_LeftApplies(player.x) /\ C10_RightApplies(player.x)
             \/ ~C10_LeftApplies(player.x) /\ ~C10_RightApplies(player.x)]_vars

\* C10 (amended): in a frame with both keys held, keyboard_input applies both
\* 10-unit steps, left first (the paddle ends where it was), except at
\* x = -260, where the left guard fails and only the right step is applied
\* (the paddle ends at x = -250); it never applies neither step.
C10_BothOrRightOnly ==
    [][KeyboardInputWith(TRUE, TRUE)
          => \/ /\ C10_LeftApplies(player.x)
                /\ C10_RightApplies(player.x)
                /\ player'.x = player.x
             \/ /\ ~C10_LeftApplies(player.x)
                /\ C10_RightApplies(player.x)
                /\ player.x = -260
                /\ player'.x = -250]_vars

\* C10 witness: the paddle is at its leftmost position x = -260, where a
\* frame with both keys held moves it to x = -250.
C10_Witness ==
    /\ player.x = -260
    /\ "keyboard_input" \notin ran
    /\ keyboard_input(player, TRUE, TRUE).x = -250

\* C11 (as claimed): at every frame boundary the paddle's left and right
\* edges, x - 50 and x + 50, are within the play-field bound of 300, so the
\* paddle does not reach into a side wall.
C11_EdgesInField ==
    (ran = {}) => (player.x - 50 >= -300 /\ player.x + 50 <= 300)

\* C12: the score is changed by out_of_bounds only.  keyboard_input,
\* move_ball and bounce_ball leave the score unchanged; out_of_bounds run on
\* a ball outside the zone leaves score and ball unchanged; score.0 never
\* decreases, grows by at most 1 in a step and not at all once out_of_bounds
\* has run in the frame (at most 1 per frame); score.1 stays 0.
C12_ScoreOnlyByMonitor ==
    [][/\ (Runs("keyboard_input") \/ Runs("move_ball") \/ Runs("bounce_ball"))
             => score' = score
       /\ (Runs("out_of_bounds") /\ ~OverlapsZone(ball))
             => (score' = score /\ ball' = ball)
       /\ score'[1] >= score[1]
       /\ score'[1] <= score[1] + 1
       /\ ("out_of_bounds" \in ran) => score' = score
       /\ score[2] = 0
       /\ score'[2] = 0]_vars

\* C12 witness: a point has been scored in an earlier frame, and in the
\* current frame out_of_bounds has run on a ball that has left the spawn
\* point and is outside the zone: the score is still 1.
C12_Witness ==
    /\ "out_of_bounds" \in ran
    /\ ~OverlapsZone(ball)
    /\ ball # BALL_INITIAL
    /\ score = <<1, 0>>

\* C13: the input step rule.  With only move-left held, x becomes x - 10 if
\* x - 75 >= -325 and is unchanged otherwise; with only move-right held, x
\* becomes x + 10 if x + 75 <= 325 and is unchanged otherwise; with no key
\* held the paddle does not move.  Whatever the keys, keyboard_input moves
\* the paddle by -10, 0 or 10 along x and not at all along y and z.
C13_InputStep ==
    [][/\ KeyboardInputWith(TRUE, FALSE)
             => player'.x = IF player.x - 75 >= -325 THEN player.x - 10 ELSE player.x
       /\ KeyboardInputWith(FALSE, TRUE)
             => player'.x = IF player.x + 75 <= 325 THEN player.x + 10 ELSE player.x
       /\ KeyboardInputWith(FALSE, FALSE) => player' = player
       /\ Runs("keyboard_input")
             => /\ player'.x - player.x \in {-10, 0, 10}
                /\ player'.y = player.y
                /\ player'.z = player.z]_vars

\* C13 witness: keyboard_input has run and the paddle stands at x = -260,
\* where a frame with only move-left held leaves it in place and a frame with
\* only move-right held takes it to x = -250.
C13_Witness ==
    /\ "keyboard_input" \in ran
    /\ player.x = -260
    /\ keyboard_input(player, TRUE, FALSE) = player
    /\ keyboard_input(player, FALSE, TRUE).x = -250

\* C14: fixed entities.  The three walls are at (0,300), (300,0), (-300,0);
\* the paddle's y is -290 and the ball's z is 0 in every state; the paddle
\* changes in keyboard_input only, and then only in x.
C14_FixedEntities ==
    /\ [](/\ Walls = <<Vec3(0, 300, 0), Vec3(300, 0, 0), Vec3(-300, 0, 0)>>
          /\ player.y = -290
          /\ ball.z = 0)
    /\ [][/\ (player' # player) => Runs("keyboard_input")
          /\ player'.y = player.y
          /\ player'.z = player.z]_vars

\* C14 witness: well into play (a point has been scored, the ball is away
\* from the spawn point, the paddle has been moved to its leftmost position)
\* the paddle is still at y = -290 and the ball at z = 0.
C14_Witness ==
    /\ score[1] >= 1
    /\ ball # BALL_INITIAL
    /\ player = Vec3(-260, -290, 0)
    /\ ball.z = 0

\* C15 (as claimed): ball containment.  At every frame boundary the ball's
\* centre satisfies -300 <= x <= 300 and y <= 300: the ball never passes
\* through or beyond the top, left or right wall.
C15_BallContained ==
    (ran = {}) => (ball.x >= -300 /\ ball.x <= 300 /\ ball.y <= 300)

\* C16 (as claimed): every escape is scored.  A ball whose centre is below
\* the bottom boundary (y < -295) after the frame's movement is reset to
\* (0,-250,0) in that same frame, so no frame ends with the ball's centre
\* below y = -295.
C16_EscapeScored ==
    (ran = Systems) => ball.y >= -295

\* C17 (as claimed): a returned ball is not scored.  In a frame in which
\* bounce_ball has applied the paddle response (it has run, on this ball
\* position and this paddle position, with the two overlapping),
\* out_of_bounds does not reset the ball or change the score.
C17_ReturnedNotScored ==
    [][(/\ Runs("out_of_bounds")
        /\ "bounce_ball" \in ran
        /\ OverlapsPaddle(ball, player))
          => (ball' = ball /\ score' = score)]_vars

\* C18 (as claimed): reflections send the ball back into the field.  After
\* bounce_ball has reflected the ball off a surface, the direction does not
\* point into that surface: dir.y <= 0 after the top wall, dir.x <= 0 after
\* the right wall, dir.x >= 0 after the left wall, dir.y >= 0 after the
\* paddle.  (The wall reflected off is the first the ball overlaps in the
\* order top, right, left.)
C18_ReflectInward ==
    [][Runs("bounce_ball")
          => LET top == OverlapsTop(ball)
                 right == OverlapsRight(ball)
                 left == OverlapsLeft(ball)
             IN  /\ top => speed'.dir.y <= 0
                 /\ (right /\ ~top) => speed'.dir.x <= 0
                 /\ (left /\ ~right /\ ~top) => speed'.dir.x >= 0
                 /\ OverlapsPaddle(ball, player) => speed'.dir.y >= 0]_vars

\* The orders in which the wall query can yield the three walls.
C19_WallOrders ==
    {w \in [1..3 -> {TopWall, RightWall, LeftWall}] :
        \A i, j \in 1..3 : (i # j) => (w[i] # w[j])}

\* C19 (as claimed): wall-order independence.  In every state, the direction
\* and multiplier that the wall phase of bounce_ball produces are the same
\* for every order in which the three walls are iterated.
C19_OrderIndependent ==
    \A w \in C19_WallOrders :
        wall_phase(w, ball, speed) = wall_phase(Walls, ball, speed)

====
